---- MODULE Spec2Model ----
(***************************************************************************)
(* A model of gom's entry point (src/main.go): the package initialiser     *)
(* that detects native vendoring support from the Go toolchain version,    *)
(* the derived vendor directory, and main's flag parsing, signal-handler   *)
(* registration, subcommand dispatch and exit status.                      *)
(*                                                                         *)
(* Strings whose characters matter (version strings, directory names) are  *)
(* sequences of one-character strings; strings that are only compared for  *)
(* equality (command-line tokens, flag values) are TLA+ strings.           *)
(***************************************************************************)
EXTENDS Integers, Sequences, FiniteSets, TLC

(***************************************************************************)
(* Bounds of the model.                                                    *)
(***************************************************************************)
\* Version segments range over 0..Max*: enough to reach 1.10.x and 2.x.
MaxMajor == 2
MaxMinor == 10
MaxPatch == 4
\* Longest GOM_VENDOR_NAME drawn from the path alphabet.
MaxNameLen == 3
\* Longest command line (os.Args[1:]).
MaxArgs == 3
\* Largest exit status of a child process.
MaxChildStatus == 3

(***************************************************************************)
(* Character strings.                                                      *)
(***************************************************************************)
Digit == <<"0", "1", "2", "3", "4", "5", "6", "7", "8", "9">>

IsDigit(c) == \E d \in 1..10 : Digit[d] = c

DigitVal(c) == (CHOOSE d \in 1..10 : Digit[d] = c) - 1

Letters == {"g", "o", "r", "c", "d", "e", "v", "l"}

RECURSIVE Itoa(_)
\* The decimal spelling of a natural number, as the toolchain prints it.
Itoa(n) == IF n < 10 THEN <<Digit[n + 1]>>
           ELSE Itoa(n \div 10) \o <<Digit[(n % 10) + 1]>>

RECURSIVE Atoi(_)
\* strconv.ParseInt on a non-empty string of digits.
Atoi(s) == IF Len(s) = 0 THEN 0
           ELSE 10 * Atoi(SubSeq(s, 1, Len(s) - 1)) + DigitVal(s[Len(s)])

HasPrefix(s, p) == Len(s) >= Len(p) /\ SubSeq(s, 1, Len(p)) = p

\* strings.TrimPrefix: one leading occurrence of p, if any, is removed.
TrimPrefix(s, p) == IF HasPrefix(s, p) THEN SubSeq(s, Len(p) + 1, Len(s)) ELSE s

RECURSIVE Split(_, _)
\* strings.Split on a one-character separator: always at least one field.
Split(s, sep) ==
    IF \A i \in 1..Len(s) : s[i] # sep THEN <<s>>
    ELSE LET i == CHOOSE k \in 1..Len(s) :
                      s[k] = sep /\ \A j \in 1..(k - 1) : s[j] # sep
         IN <<SubSeq(s, 1, i - 1)>> \o Split(SubSeq(s, i + 1, Len(s)), sep)

RECURSIVE JoinWith(_, _)
\* strings.Join with a one-character separator.
JoinWith(parts, sep) ==
    IF Len(parts) = 0 THEN <<>>
    ELSE IF Len(parts) = 1 THEN parts[1]
    ELSE parts[1] \o <<sep>> \o JoinWith(Tail(parts), sep)

(***************************************************************************)
(* github.com/hashicorp/go-version, as checkVendoringSupport uses it.      *)
(* A version is up to three dot-separated decimal segments, padded with    *)
(* zeros to three, optionally followed by "-" and a prerelease tag.        *)
(***************************************************************************)
IsNumber(s) == Len(s) > 0 /\ \A i \in 1..Len(s) : IsDigit(s[i])

IsPreIdent(s) ==
    Len(s) > 0 /\ \A i \in 1..Len(s) : IsDigit(s[i]) \/ s[i] \in Letters

\* The text before the first "-" (the numeric core) and the text after it.
CoreOf(s) ==
    IF \A i \in 1..Len(s) : s[i] # "-" THEN s
    ELSE SubSeq(s, 1, (CHOOSE k \in 1..Len(s) :
                           s[k] = "-" /\ \A j \in 1..(k - 1) : s[j] # "-") - 1)

HasPre(s) == \E i \in 1..Len(s) : s[i] = "-"

PreOf(s) == IF HasPre(s) THEN SubSeq(s, Len(CoreOf(s)) + 2, Len(s)) ELSE <<>>

\* version.NewVersion succeeds (err == nil) on s.
ParsesAsVersion(s) ==
    LET segs == Split(CoreOf(s), ".")
        ids == Split(PreOf(s), ".")
    IN /\ Len(segs) <= 3
       /\ \A i \in 1..Len(segs) : IsNumber(segs[i])
       /\ HasPre(s) => \A i \in 1..Len(ids) : IsPreIdent(ids[i])

\* version.NewVersion: the parsed version of a string that parses.
NewVersion(s) ==
    LET segs == Split(CoreOf(s), ".")
    IN [segments |-> [i \in 1..3 |-> IF i <= Len(segs) THEN Atoi(segs[i]) ELSE 0],
        pre |-> PreOf(s)]

\* The fixed thresholds of checkVendoringSupport.
go150 == NewVersion(<<"1", ".", "5", ".", "0">>)

go160 == NewVersion(<<"1", ".", "6", ".", "0">>)

go173 == NewVersion(<<"1", ".", "7", ".", "3">>)

\* Version.Compare: -1, 0 or 1. Segments are compared numerically from the
\* left; on equal segments a version with a prerelease tag is less than the
\* same version without one. The thresholds carry no prerelease tag, so two
\* different tags are never compared.
Compare(a, b) ==
    LET differ == {i \in 1..3 : a.segments[i] # b.segments[i]}
    IN IF differ # {}
       THEN LET i == CHOOSE k \in differ : \A j \in differ : k <= j
            IN IF a.segments[i] < b.segments[i] THEN -1 ELSE 1
       ELSE CASE a.pre = b.pre -> 0
              [] a.pre # <<>> /\ b.pre = <<>> -> -1
              [] a.pre = <<>> /\ b.pre # <<>> -> 1

LessThan(a, b) == Compare(a, b) < 0

GreaterThan(a, b) == Compare(a, b) > 0

Equal(a, b) == Compare(a, b) = 0

(***************************************************************************)
(* The process environment.  A variable is unset or holds a string;        *)
(* os.Getenv gives the empty string for an unset variable.                 *)
(***************************************************************************)
Unset(empty) == [set |-> FALSE, val |-> empty]

Holds(v) == [set |-> TRUE, val |-> v]

Getenv(e, empty) == IF e.set THEN e.val ELSE empty

(***************************************************************************)
(* goversion and checkVendoringSupport.                                    *)
(***************************************************************************)
\* gover.Version() either returns a string or panics.
Returned(s) == [panics |-> FALSE, val |-> s]

Panicked == [panics |-> TRUE, val |-> <<>>]

\* goversion: "defer recover()" defers the builtin itself, so recover is not
\* called by a deferred function and stops no panic; a panic of
\* gover.Version() leaves goversion still panicking.
goversion(gv) == gv

\* What checkVendoringSupport does: it panics, or it returns val; read tells
\* whether GO15VENDOREXPERIMENT was consulted on the way.
Panics == [panics |-> TRUE, val |-> FALSE, read |-> FALSE]

Returns(b, consulted) == [panics |-> FALSE, val |-> b, read |-> consulted]

\* Faulty variant: every band edge is taken one comparison too late (<= where
\* the code has <).
checkVendoringSupport_lateEdges(gv, go15) ==
    IF goversion(gv).panics THEN Panics
    ELSE LET ver == goversion(gv).val
         IN IF ver = <<>> THEN Returns(TRUE, FALSE)
            ELSE IF ~ParsesAsVersion(TrimPrefix(ver, <<"g", "o">>)) THEN Panics
            ELSE LET goVer == NewVersion(TrimPrefix(ver, <<"g", "o">>))
                 IN IF ~GreaterThan(goVer, go150) THEN Returns(FALSE, FALSE)
                    ELSE IF ~GreaterThan(goVer, go160)
                    THEN Returns(Getenv(go15, "") = "1", TRUE)
                    ELSE IF ~GreaterThan(goVer, go173)
                    THEN Returns(Getenv(go15, "") # "0", TRUE)
                    ELSE Returns(TRUE, FALSE)

\* Faulty variant: the empty version is not set apart and goes to the parser.
checkVendoringSupport_noEmptyCase(gv, go15) ==
    IF goversion(gv).panics THEN Panics
    ELSE LET ver == goversion(gv).val
         IN IF ~ParsesAsVersion(TrimPrefix(ver, <<"g", "o">>)) THEN Panics
            ELSE LET goVer == NewVersion(TrimPrefix(ver, <<"g", "o">>))
                 IN IF LessThan(goVer, go150) THEN Returns(FALSE, FALSE)
                    ELSE IF (Equal(goVer, go150) \/ GreaterThan(goVer, go150))
                            /\ LessThan(goVer, go160)
                    THEN Returns(Getenv(go15, "") = "1", TRUE)
                    ELSE IF (Equal(goVer, go160) \/ GreaterThan(goVer, go160))
                            /\ LessThan(goVer, go173)
                    THEN Returns(Getenv(go15, "") # "0", TRUE)
                    ELSE Returns(TRUE, FALSE)

\* checkVendoringSupport: gv is what gover.Version() does, go15 the
\* GO15VENDOREXPERIMENT variable.
checkVendoringSupport(gv, go15) ==
    IF goversion(gv).panics THEN Panics
    ELSE LET ver == goversion(gv).val
         IN IF ver = <<>> THEN Returns(TRUE, FALSE)
            ELSE IF ~ParsesAsVersion(TrimPrefix(ver, <<"g", "o">>)) THEN Panics
            ELSE LET goVer == NewVersion(TrimPrefix(ver, <<"g", "o">>))
                 IN IF LessThan(goVer, go150) THEN Returns(FALSE, FALSE)
                    ELSE IF (Equal(goVer, go150) \/ GreaterThan(goVer, go150))
                            /\ LessThan(goVer, go160)
                    THEN Returns(Getenv(go15, "") = "1", TRUE)
                    ELSE IF (Equal(goVer, go160) \/ GreaterThan(goVer, go160))
                            /\ LessThan(goVer, go173)
                    THEN Returns(Getenv(go15, "") # "0", TRUE)
                    ELSE Returns(TRUE, FALSE)

(***************************************************************************)
(* The vendor directory.                                                   *)
(***************************************************************************)
\* The elements of a path that path cleaning keeps: "" and "." are dropped,
\* ".." removes the element before it, or is dropped at the root, or stays.
RECURSIVE CleanElems(_, _, _)
CleanElems(elems, kept, rooted) ==
    IF Len(elems) = 0 THEN kept
    ELSE LET e == Head(elems)
             dotdot == <<".", ".">>
         IN CleanElems(Tail(elems),
                IF e = <<>> \/ e = <<".">> THEN kept
                ELSE IF e # dotdot THEN Append(kept, e)
                ELSE IF Len(kept) > 0 /\ kept[Len(kept)] # dotdot
                THEN SubSeq(kept, 1, Len(kept) - 1)
                ELSE IF rooted THEN kept
                ELSE Append(kept, e),
                rooted)

\* filepath.Clean with "/" as the separator.
Clean(path) ==
    LET rooted == Len(path) > 0 /\ path[1] = "/"
        body == JoinWith(CleanElems(Split(path, "/"), <<>>, rooted), "/")
        out == IF rooted THEN <<"/">> \o body ELSE body
    IN IF out = <<>> THEN <<".">> ELSE out

\* filepath.Join of two elements: empty elements are ignored, the rest are
\* joined with the separator and the result is cleaned.
Join(a, b) ==
    IF a = <<>> /\ b = <<>> THEN <<>>
    ELSE IF a = <<>> THEN Clean(b)
    ELSE IF b = <<>> THEN Clean(a)
    ELSE Clean(a \o <<"/">> \o b)

vendorStr == <<"v", "e", "n", "d", "o", "r">>

underscoreVendorStr == <<"_">> \o vendorStr

srcStr == <<"s", "r", "c">>

\* Faulty variant: the override is taken even when it is empty.
vendorFolderOf_noLenCheck(supported, gomVendorName) ==
    IF supported THEN vendorStr
    ELSE IF gomVendorName.set THEN Getenv(gomVendorName, <<>>)
    ELSE underscoreVendorStr

\* init, lines 49-57: the vendor folder for a given vendoring support and
\* GOM_VENDOR_NAME.
vendorFolderOf(supported, gomVendorName) ==
    IF supported THEN vendorStr
    ELSE IF Len(Getenv(gomVendorName, <<>>)) > 0 THEN Getenv(gomVendorName, <<>>)
    ELSE underscoreVendorStr

\* Faulty variant: the condition is inverted.
vendorSrc_inverted(supported, vendor) ==
    IF ~supported THEN vendor ELSE Join(vendor, srcStr)

\* vendorSrc, reading the global isVendoringSupported as its first argument.
vendorSrc(supported, vendor) ==
    IF supported THEN vendor ELSE Join(vendor, srcStr)

(***************************************************************************)
(* The command line.  Tokens are whole strings; DashTokens are the ones    *)
(* that begin with "-" and are longer than one character, which is what    *)
(* the flag package takes for a flag.                                      *)
(***************************************************************************)
BoolFlags == {"-production", "-development", "-test", "-project-mode"}

DashTokens == BoolFlags \cup {"-groups", "--", "-h", "-bogus", "-run", "-v"}

NoFlags == [production |-> FALSE, development |-> FALSE, test |-> FALSE,
            projectMode |-> FALSE, groups |-> ""]

SetBool(fl, tok) ==
    CASE tok = "-production" -> [fl EXCEPT !.production = TRUE]
      [] tok = "-development" -> [fl EXCEPT !.development = TRUE]
      [] tok = "-test" -> [fl EXCEPT !.test = TRUE]
      [] tok = "-project-mode" -> [fl EXCEPT !.projectMode = TRUE]

RECURSIVE flagParse(_, _)
\* flag.Parse over the flags of lines 38-42: flags are consumed up to the
\* first token that is not one, or up to and including "--".  err names why
\* parsing stopped early: "" when it did not.
flagParse(args, fl) ==
    IF Len(args) = 0 THEN [err |-> "", rest |-> args, flags |-> fl]
    ELSE LET tok == Head(args)
         IN IF tok \notin DashTokens THEN [err |-> "", rest |-> args, flags |-> fl]
            ELSE IF tok = "--" THEN [err |-> "", rest |-> Tail(args), flags |-> fl]
            ELSE IF tok \in BoolFlags THEN flagParse(Tail(args), SetBool(fl, tok))
            ELSE IF tok = "-groups"
            THEN IF Len(args) = 1
                 THEN [err |-> "flag needs an argument", rest |-> Tail(args),
                       flags |-> fl]
                 ELSE flagParse(Tail(Tail(args)), [fl EXCEPT !.groups = args[2]])
            ELSE IF tok = "-h"
            THEN [err |-> "help requested", rest |-> Tail(args), flags |-> fl]
            ELSE [err |-> "flag provided but not defined", rest |-> Tail(args),
                  flags |-> fl]

\* strings.Split(groups, ","): the tokens of the model hold no comma, but for
\* "a,b"; a string without a comma, the empty one too, is the only element.
groupList(groups) == IF groups = "a,b" THEN <<"a", "b">> ELSE <<groups>>

\* flag.Arg(i): the i-th remaining argument (from 0), "" when there is none.
Arg(nargs, i) == IF i < Len(nargs) THEN nargs[i + 1] ELSE ""

Usage == [call |-> "usage", args |-> <<>>]

Call(handler, args) == [call |-> handler, args |-> args]

\* Faulty variant: the grouped case passes a fixed subcommand instead of
\* flag.Arg(0), and the others put the user's arguments first.
dispatch_garbled(nargs) ==
    LET subArgs == Tail(nargs)
        arg0 == Arg(nargs, 0)
    IN CASE arg0 \in {"install", "i"} -> Call("install", subArgs)
         [] arg0 \in {"build", "b"} -> Call("run", subArgs \o <<"go", "build">>)
         [] arg0 \in {"test", "t"} -> Call("run", subArgs \o <<"go", "test">>)
         [] arg0 \in {"run", "r"} -> Call("run", subArgs \o <<"go", "run">>)
         [] arg0 \in {"doc", "d"} -> Call("run", <<"godoc">> \o subArgs)
         [] arg0 \in {"exec", "e"} -> Call("run", subArgs)
         [] arg0 \in {"env", "tool", "fmt", "list", "vet"} ->
                Call("run", <<"go", "env">> \o subArgs)
         [] arg0 \in {"update", "u"} -> Call("update", <<>>)
         [] arg0 \in {"gen", "g"} ->
                CASE Arg(nargs, 1) = "travis-yml" -> Call("genTravisYml", <<>>)
                  [] Arg(nargs, 1) = "gomfile" -> Call("genGomfile", <<>>)
                  [] OTHER -> Usage
         [] arg0 \in {"lock", "l"} -> Call("genGomfileLock", <<>>)
         [] OTHER -> Usage

\* main's switch, lines 119-150: the handler called for the remaining
\* arguments nargs (flag.Args(), not empty) and the vector handed to it.
dispatch(nargs) ==
    LET subArgs == Tail(nargs)
        arg0 == Arg(nargs, 0)
    IN CASE arg0 \in {"install", "i"} -> Call("install", subArgs)
         [] arg0 \in {"build", "b"} -> Call("run", <<"go", "build">> \o subArgs)
         [] arg0 \in {"test", "t"} -> Call("run", <<"go", "test">> \o subArgs)
         [] arg0 \in {"run", "r"} -> Call("run", <<"go", "run">> \o subArgs)
         [] arg0 \in {"doc", "d"} -> Call("run", <<"godoc">> \o subArgs)
         [] arg0 \in {"exec", "e"} -> Call("run", subArgs)
         [] arg0 \in {"env", "tool", "fmt", "list", "vet"} ->
                Call("run", <<"go", arg0>> \o subArgs)
         [] arg0 \in {"update", "u"} -> Call("update", <<>>)
         [] arg0 \in {"gen", "g"} ->
                CASE Arg(nargs, 1) = "travis-yml" -> Call("genTravisYml", <<>>)
                  [] Arg(nargs, 1) = "gomfile" -> Call("genGomfile", <<>>)
                  [] OTHER -> Usage
         [] arg0 \in {"lock", "l"} -> Call("genGomfileLock", <<>>)
         [] OTHER -> Usage

(***************************************************************************)
(* Exit statuses and what the process writes.                              *)
(***************************************************************************)
\* os.Exit(1) in usage and at the end of main.
ExitFailure == 1

\* The status of a Go program that ends in an unrecovered panic.
ExitPanic == 2

usageText == [stream |-> "stdout", prefix |-> "Usage of ", lines |-> "many",
              arg |-> <<>>]

flagError(why) == [stream |-> "stderr", prefix |-> why, lines |-> "one",
                   arg |-> <<>>]

\* panic(fmt.Sprintf(...)) of line 81: the runtime prints "panic: ", the
\* message with the version string, and the goroutine trace.
versionPanic(ver) ==
    [stream |-> "stderr",
     prefix |-> "panic: gover.Version() returned invalid semantic version: ",
     lines |-> "many", arg |-> ver]

\* A panic that came out of gover.Version().
goverPanic == [stream |-> "stderr", prefix |-> "panic: ", lines |-> "many",
               arg |-> <<>>]

\* fmt.Fprintln(os.Stderr, "gom: ", err)
gomError == [stream |-> "stderr", prefix |-> "gom: ", lines |-> "one",
             arg |-> <<>>]

(***************************************************************************)
(* The handlers main calls (run, install, update, genTravisYml,            *)
(* genGomfile, genGomfileLock) live in other files of the repository.      *)
(* Each returns an error or nil.  run launches argumentVector[0] and       *)
(* reports what became of it: the executable was not found, the spawn      *)
(* failed, or the child ran and ended with a status, which run reports as  *)
(* its result, nil only for status 0.                                      *)
(***************************************************************************)
NoResult == [kind |-> "none", status |-> 0]

Outcomes(handler, args) ==
    IF handler = "run"
    THEN IF Len(args) = 0 THEN {[kind |-> "notFound", status |-> 0]}
         ELSE {[kind |-> "notFound", status |-> 0],
               [kind |-> "spawnError", status |-> 0]}
              \cup {[kind |-> "exit", status |-> n] : n \in 0..MaxChildStatus}
    ELSE {[kind |-> "ok", status |-> 0], [kind |-> "failed", status |-> 0]}

\* Whether a handler's result is a non-nil error.
IsErr(r) == r.kind \in {"notFound", "spawnError", "failed"}
            \/ (r.kind = "exit" /\ r.status # 0)

(***************************************************************************)
(* State.                                                                  *)
(***************************************************************************)
VARIABLES
    pc,                    \* where the process is
    goverOut,              \* what gover.Version() does in this run
    go15VendorExperiment,  \* the environment variable GO15VENDOREXPERIMENT
    gomVendorName,         \* the environment variable GOM_VENDOR_NAME
    osArgs,                \* os.Args[1:]
    isVendoringSupported,  \* the global of line 45
    vendorFolder,          \* the global of line 44
    consulted,             \* whether init read GO15VENDOREXPERIMENT
    flags,                 \* the flag variables of lines 38-42
    customGroupList,       \* the global of line 43
    nargs,                 \* flag.Args()
    signalHandled,         \* handleSignal has been called
    called,                \* the handler main called, with its arguments
    srcDir,                \* vendorSrc(vendorFolder) as the handler took it
    result,                \* what the handler returned
    output,                \* what the process wrote, in order
    exitCode               \* the exit status, once pc = "exited"

vars == <<pc, goverOut, go15VendorExperiment, gomVendorName, osArgs,
          isVendoringSupported, vendorFolder, consulted, flags,
          customGroupList, nargs, signalHandled, called, srcDir, result,
          output, exitCode>>

inputs == <<goverOut, go15VendorExperiment, gomVendorName, osArgs>>

\* The state before the package initialiser runs, for given inputs.
InitWith(GV, G15, VN, AV) ==
    /\ goverOut \in GV
    /\ go15VendorExperiment \in G15
    /\ gomVendorName \in VN
    /\ osArgs \in AV
    /\ pc = "init"
    /\ isVendoringSupported = FALSE
    /\ vendorFolder = <<>>
    /\ consulted = FALSE
    /\ flags = NoFlags
    /\ customGroupList = <<>>
    /\ nargs = <<>>
    /\ signalHandled = FALSE
    /\ called = [call |-> "none", args |-> <<>>]
    /\ srcDir = <<>>
    /\ result = NoResult
    /\ output = <<>>
    /\ exitCode = 0

(***************************************************************************)
(* Actions.                                                                *)
(***************************************************************************)
\* init, lines 47-58.  A panic in checkVendoringSupport ends the process.
PkgInit ==
    /\ pc = "init"
    /\ LET r == checkVendoringSupport(goverOut, go15VendorExperiment)
       IN IF r.panics
          THEN /\ pc' = "exited"
               /\ exitCode' = ExitPanic
               /\ output' = Append(output, IF goverOut.panics THEN goverPanic
                                           ELSE versionPanic(goverOut.val))
               /\ UNCHANGED <<isVendoringSupported, vendorFolder, consulted>>
          ELSE /\ pc' = "main"
               /\ isVendoringSupported' = r.val
               /\ vendorFolder' = vendorFolderOf(r.val, gomVendorName)
               /\ consulted' = r.read
               /\ UNCHANGED <<exitCode, output>>
    /\ UNCHANGED <<inputs, flags, customGroupList, nargs, signalHandled, called,
                   srcDir, result>>

\* Faulty variant: the handler is not registered before dispatch.
Parse_skipHandleSignal ==
    /\ pc = "main"
    /\ LET p == flagParse(osArgs, NoFlags)
       IN /\ flags' = p.flags
          /\ nargs' = p.rest
          /\ IF p.err # ""
             THEN /\ pc' = "exited"
                  /\ exitCode' = ExitFailure
                  /\ output' = IF p.err = "help requested"
                               THEN Append(output, usageText)
                               ELSE output \o <<flagError(p.err), usageText>>
             ELSE IF Len(p.rest) = 0
             THEN /\ pc' = "exited"
                  /\ exitCode' = ExitFailure
                  /\ output' = Append(output, usageText)
             ELSE /\ pc' = "dispatch"
                  /\ UNCHANGED <<exitCode, output>>
    /\ UNCHANGED <<inputs, isVendoringSupported, vendorFolder, consulted,
                   customGroupList, signalHandled, called, srcDir, result>>

\* main, lines 105-109: flag.Parse with usage as flag.Usage, then the check
\* that a subcommand is left.  usage prints and exits with status 1, also
\* when the flag package calls it on a flag it rejects.
Parse ==
    /\ pc = "main"
    /\ LET p == flagParse(osArgs, NoFlags)
       IN /\ flags' = p.flags
          /\ nargs' = p.rest
          /\ IF p.err # ""
             THEN /\ pc' = "exited"
                  /\ exitCode' = ExitFailure
                  /\ output' = IF p.err = "help requested"
                               THEN Append(output, usageText)
                               ELSE output \o <<flagError(p.err), usageText>>
             ELSE IF Len(p.rest) = 0
             THEN /\ pc' = "exited"
                  /\ exitCode' = ExitFailure
                  /\ output' = Append(output, usageText)
             ELSE /\ pc' = "handleSignal"
                  /\ UNCHANGED <<exitCode, output>>
    /\ UNCHANGED <<inputs, isVendoringSupported, vendorFolder, consulted,
                   customGroupList, signalHandled, called, srcDir, result>>

\* main, line 110.
HandleSignal ==
    /\ pc = "handleSignal"
    /\ signalHandled' = TRUE
    /\ pc' = "dispatch"
    /\ UNCHANGED <<inputs, isVendoringSupported, vendorFolder, consulted, flags,
                   customGroupList, nargs, called, srcDir, result, output,
                   exitCode>>

\* main, lines 112-150: the default environment, then the switch.
Dispatch ==
    /\ pc = "dispatch"
    /\ flags' = IF ~flags.production /\ ~flags.development /\ ~flags.test
                THEN [flags EXCEPT !.development = TRUE]
                ELSE flags
    /\ customGroupList' = groupList(flags.groups)
    /\ LET d == dispatch(nargs)
       IN IF d = Usage
          THEN /\ pc' = "exited"
               /\ exitCode' = ExitFailure
               /\ output' = Append(output, usageText)
               /\ UNCHANGED called
          ELSE /\ pc' = "called"
               /\ called' = d
               /\ UNCHANGED <<exitCode, output>>
    /\ UNCHANGED <<inputs, isVendoringSupported, vendorFolder, consulted, nargs,
                   signalHandled, srcDir, result>>

\* The called handler runs and returns.
Handler ==
    /\ pc = "called"
    /\ \E r \in Outcomes(called.call, called.args) : result' = r
    /\ srcDir' = vendorSrc(isVendoringSupported, vendorFolder)
    /\ pc' = "returned"
    /\ UNCHANGED <<inputs, isVendoringSupported, vendorFolder, consulted, flags,
                   customGroupList, nargs, signalHandled, called, output,
                   exitCode>>

\* Faulty variant: the error is dropped and the process exits with status 0.
Exit_errorIgnored ==
    /\ pc = "returned"
    /\ pc' = "exited"
    /\ output' = output
    /\ exitCode' = 0
    /\ UNCHANGED <<inputs, isVendoringSupported, vendorFolder, consulted, flags,
                   customGroupList, nargs, signalHandled, called, srcDir,
                   result>>

\* main, lines 151-155: an error is printed and the process exits with
\* status 1; otherwise main returns and the process exits with status 0.
Exit ==
    /\ pc = "returned"
    /\ pc' = "exited"
    /\ IF IsErr(result)
       THEN /\ output' = Append(output, gomError)
            /\ exitCode' = ExitFailure
       ELSE /\ output' = output
            /\ exitCode' = 0
    /\ UNCHANGED <<inputs, isVendoringSupported, vendorFolder, consulted, flags,
                   customGroupList, nargs, signalHandled, called, srcDir,
                   result>>

Next == PkgInit \/ Parse \/ HandleSignal \/ Dispatch \/ Handler \/ Exit

(***************************************************************************)
(* Inputs.                                                                 *)
(***************************************************************************)
SeqsUpTo(S, n) == UNION {[1..k -> S] : k \in 0..n}

\* Dotted version numbers of one, two and three segments.
VersionNumbers ==
    {Itoa(a) : a \in 0..MaxMajor}
    \cup {Itoa(a) \o <<".">> \o Itoa(b) : a \in 0..MaxMajor, b \in 0..MaxMinor}
    \cup {Itoa(a) \o <<".">> \o Itoa(b) \o <<".">> \o Itoa(c) :
              a \in 0..MaxMajor, b \in 0..MaxMinor, c \in 0..MaxPatch}

\* Version strings as a toolchain reports them: with or without the "go"
\* prefix, released or release candidate.
VersionStrings ==
    {p \o n \o t : p \in {<<>>, <<"g", "o">>}, n \in VersionNumbers,
                   t \in {<<>>, <<"-", "r", "c">>}}

\* Strings that are no version once one "go" is stripped, and the empty one.
OddStrings ==
    {<<>>, <<"g", "o">>, <<"d", "e", "v", "e", "l">>, <<"g", "o", "g", "o", "1">>,
     <<"g", "o", "1", ".">>, <<"g", "o", "1", ".", ".", "5">>,
     <<"g", "o", "1", ".", "5", ".", "0", ".">>}

GoverWide == {Panicked} \cup {Returned(v) : v \in VersionStrings \cup OddStrings}

GoverFew ==
    {Panicked, Returned(<<>>), Returned(<<"d", "e", "v", "e", "l">>),
     Returned(<<"g", "o", "1", ".", "4", ".", "2">>),
     Returned(<<"g", "o", "1", ".", "9", ".", "0">>)}

Go15Wide == {Unset(""), Holds(""), Holds("0"), Holds("1"), Holds("true"), Holds("10")}

Go15Few == {Unset("")}

libsStr == <<"l", "i", "b", "s">>

\* Directory names over a small path alphabet, and the override "libs".
VendorWide ==
    {Unset(<<>>), Holds(libsStr)}
    \cup {Holds(n) : n \in SeqsUpTo({"l", ".", "/"}, MaxNameLen)}

VendorFew == {Unset(<<>>)}

\* What may stand before the subcommand.
FlagPrefixes ==
    {<<>>, <<"-test">>, <<"-production", "-project-mode">>, <<"-groups", "a">>,
     <<"-groups", "a,b">>, <<"-groups">>, <<"--">>, <<"-development", "--">>, <<"-bogus">>, <<"-h">>}

Subcommands ==
    {"install", "i", "build", "b", "test", "t", "run", "r", "doc", "d", "exec",
     "e", "env", "tool", "fmt", "list", "vet", "update", "u", "gen", "g", "lock",
     "l", "frob"}

UserTokens == {"-run", "Foo", "gomfile", "travis-yml"}

ArgvWide ==
    FlagPrefixes
    \cup {f \o <<c>> \o u : f \in FlagPrefixes, c \in Subcommands,
                            u \in SeqsUpTo(UserTokens, MaxArgs - 1)}

ArgvFew == {<<"test", "-run", "Foo">>}

(***************************************************************************)
(* Specifications: the same program, each with one input drawn widely.     *)
(***************************************************************************)
InitResolver == InitWith(GoverWide, Go15Wide, VendorFew, ArgvFew)

SpecResolver == InitResolver /\ [][Next]_vars

InitVendor == InitWith(GoverFew, Go15Few, VendorWide, ArgvFew)

SpecVendor == InitVendor /\ [][Next]_vars

InitMain == InitWith(GoverFew, Go15Few, VendorFew, ArgvWide)

SpecMain == InitMain /\ [][Next]_vars

(***************************************************************************)
(* Properties.                                                             *)
(***************************************************************************)
\* The version the toolchain reported, when gover.Version() returned one
\* that parses.
HasVersion ==
    /\ ~goverOut.panics
    /\ goverOut.val # <<>>
    /\ ParsesAsVersion(TrimPrefix(goverOut.val, <<"g", "o">>))

Malformed ==
    /\ ~goverOut.panics
    /\ goverOut.val # <<>>
    /\ ~ParsesAsVersion(TrimPrefix(goverOut.val, <<"g", "o">>))

TheVersion == NewVersion(TrimPrefix(goverOut.val, <<"g", "o">>))

\* The place of a version in the release order, written out arithmetically:
\* segments from the left, and a release candidate just before its release.
Rank(v) ==
    ((v.segments[1] * 1000 + v.segments[2]) * 1000 + v.segments[3]) * 2
    + (IF v.pre = <<>> THEN 1 ELSE 0)

Release(a, b, c) == [segments |-> <<a, b, c>>, pre |-> <<>>]

Go15Is(x) == go15VendorExperiment.set /\ go15VendorExperiment.val = x

Resolved == pc # "init" /\ HasVersion

PanicExit == pc = "exited" /\ exitCode = ExitPanic

\* C1: for every version v with 1.5.0 <= v < 1.6.0 and every value of
\* GO15VENDOREXPERIMENT, unset included, vendoring is supported if and only
\* if the variable is exactly "1"; 1.5.0 is inside the band and 1.6.0 is not
\* (at 1.6.0 an unset variable gives true).
C1_OptInBand ==
    Resolved =>
        /\ (Rank(Release(1, 5, 0)) <= Rank(TheVersion)
            /\ Rank(TheVersion) < Rank(Release(1, 6, 0)))
               => (consulted /\ (isVendoringSupported <=> Go15Is("1")))
        /\ (TheVersion = Release(1, 6, 0) /\ ~Go15Is("0")) => isVendoringSupported

C1_Witness ==
    /\ pc = "main"
    /\ HasVersion
    /\ TheVersion = Release(1, 5, 0)
    /\ Go15Is("1")
    /\ isVendoringSupported

\* C2: for every version v with 1.6.0 <= v < 1.7.3 and every value of
\* GO15VENDOREXPERIMENT, unset included, vendoring is unsupported if and
\* only if the variable is exactly "0"; 1.6.0 is inside the band and 1.7.3
\* is not (at 1.7.3 the value "0" still gives true).
C2_OptOutBand ==
    Resolved =>
        /\ (Rank(Release(1, 6, 0)) <= Rank(TheVersion)
            /\ Rank(TheVersion) < Rank(Release(1, 7, 3)))
               => (consulted /\ (~isVendoringSupported <=> Go15Is("0")))
        /\ (TheVersion = Release(1, 7, 3) /\ Go15Is("0")) => isVendoringSupported

C2_Witness ==
    /\ pc = "main"
    /\ HasVersion
    /\ TheVersion = Release(1, 6, 0)
    /\ Go15Is("0")
    /\ ~isVendoringSupported

\* C3: outside the two bands the result does not depend on the environment:
\* from 1.7.3 on it is true and below 1.5.0 it is false, whatever
\* GO15VENDOREXPERIMENT holds, and the variable is not consulted.
C3_NoFlagOutsideBands ==
    Resolved =>
        /\ Rank(TheVersion) >= Rank(Release(1, 7, 3))
               => (isVendoringSupported /\ ~consulted)
        /\ Rank(TheVersion) < Rank(Release(1, 5, 0))
               => (~isVendoringSupported /\ ~consulted)

C3_Witness ==
    /\ pc = "main"
    /\ HasVersion
    /\ Rank(TheVersion) >= Rank(Release(1, 7, 3))
    /\ Go15Is("0")
    /\ isVendoringSupported

\* C4: an empty version string gives true, without a panic and without
\* consulting GO15VENDOREXPERIMENT; a non-empty string that is no version
\* once the "go" prefix is stripped ends the process in the panic of line 81,
\* and checkVendoringSupport returns nothing: the globals stay unassigned
\* and main never starts.
C4_AbsentVersusMalformed ==
    pc # "init" =>
        /\ (~goverOut.panics /\ goverOut.val = <<>>)
               => (~PanicExit /\ isVendoringSupported /\ ~consulted)
        /\ Malformed
               => /\ PanicExit
                  /\ output = <<versionPanic(goverOut.val)>>
                  /\ vendorFolder = <<>>
                  /\ ~isVendoringSupported
                  /\ ~signalHandled
                  /\ called.call = "none"

C4_Witness ==
    /\ pc = "main"
    /\ ~goverOut.panics
    /\ goverOut.val = <<>>
    /\ Go15Is("0")
    /\ isVendoringSupported

\* A directory name that path cleaning leaves alone: no "." or ".." element,
\* no doubled or trailing separator; a single leading separator is allowed.
PlainName(name) ==
    LET els == Split(name, "/")
    IN \A i \in 1..Len(els) :
           /\ els[i] # <<".">>
           /\ els[i] # <<".", ".">>
           /\ els[i] = <<>> => (i = 1 /\ Len(els) > 1)

\* The base name the claim gives for the unsupported case.
ExpectedBase ==
    IF gomVendorName.set /\ gomVendorName.val # <<>> THEN gomVendorName.val
    ELSE underscoreVendorStr

HandlerRan == pc \in {"returned", "exited"} /\ called.call # "none"

\* C5 as stated: without vendoring support the base name is GOM_VENDOR_NAME
\* if non-empty and "_vendor" otherwise, and vendorSrc(base) is exactly base
\* followed by "/src"; with support the base name is "vendor" whatever
\* GOM_VENDOR_NAME holds and vendorSrc(base) is base.
C5_AsStated ==
    HandlerRan =>
        IF isVendoringSupported
        THEN vendorFolder = vendorStr /\ srcDir = vendorFolder
        ELSE vendorFolder = ExpectedBase
             /\ srcDir = vendorFolder \o <<"/">> \o srcStr

\* C5, amended: the base names are as stated; vendorSrc(base) is base with
\* support, and without it the cleaned join of base and "src": its last
\* element is "src", and it is exactly base followed by "/src" whenever base
\* has no "." or ".." element and no doubled or trailing separator.
C5_VendorSrc ==
    HandlerRan =>
        IF isVendoringSupported
        THEN vendorFolder = vendorStr /\ srcDir = vendorFolder
        ELSE /\ vendorFolder = ExpectedBase
             /\ Split(srcDir, "/")[Len(Split(srcDir, "/"))] = srcStr
             /\ PlainName(vendorFolder)
                    => srcDir = vendorFolder \o <<"/">> \o srcStr

C5_Witness ==
    /\ HandlerRan
    /\ ~isVendoringSupported
    /\ gomVendorName = Holds(libsStr)
    /\ srcDir = libsStr \o <<"/">> \o srcStr

\* C6: a child of a wrapped subcommand that ends with a non-zero status n
\* makes the wrapper exit with status n, and is not reported as an error of
\* the wrapper.
C6_ChildStatusMirrored ==
    (pc = "exited" /\ called.call = "run" /\ result.kind = "exit"
     /\ result.status # 0)
        => (exitCode = result.status /\ output = <<>>)

\* The fatal conditions C7 names: a malformed version, and an error returned
\* by a dispatched handler.
HandlerFailed == pc = "exited" /\ called.call # "none" /\ IsErr(result)

\* C7 as stated: every fatal condition ends the process with status 1 after
\* a one-line diagnostic prefixed with the tool's name on the error stream.
C7_AsStated ==
    (pc = "exited" /\ (Malformed \/ HandlerFailed))
        => /\ exitCode = 1
           /\ Len(output) > 0
           /\ output[Len(output)] = gomError

\* C7, amended: an error returned by a dispatched handler ends the process
\* with status 1 after the one-line diagnostic prefixed "gom: " on the error
\* stream; a malformed version ends it in a panic instead, with status 2 and
\* the runtime's "panic: " report naming the version string.
C7_FatalExits ==
    pc = "exited" =>
        /\ HandlerFailed => /\ exitCode = 1
                            /\ output = <<gomError>>
        /\ Malformed => /\ exitCode = 2
                        /\ output = <<versionPanic(goverOut.val)>>

C7_Witness ==
    /\ HandlerFailed
    /\ result.kind = "notFound"
    /\ exitCode = 1
    /\ output = <<gomError>>

GoSubcommands == {"build", "test", "run", "env", "tool", "fmt", "list", "vet"}

\* C8: for each of build, test, run, env, tool, fmt, list and vet, and every
\* list of arguments after it, main calls run with "go", the subcommand and
\* exactly those arguments in their order.
C8_ArgumentVector ==
    /\ (pc \in {"called", "returned", "exited"} /\ signalHandled
        /\ Arg(nargs, 0) \in GoSubcommands)
           => /\ called.call = "run"
              /\ Len(called.args) = Len(nargs) + 1
              /\ called.args[1] = "go"
              /\ \A i \in 1..Len(nargs) : called.args[i + 1] = nargs[i]
    /\ (pc \in {"called", "returned", "exited"} /\ signalHandled
        /\ Arg(osArgs, 0) \in GoSubcommands)
           => called = Call("run", <<"go">> \o osArgs)

C8_Witness ==
    /\ pc = "called"
    /\ osArgs = <<"test", "-run", "Foo">>
    /\ called = Call("run", <<"go", "test", "-run", "Foo">>)

\* C9: no handler is called, and main's switch is not reached, before the
\* interrupt handler has been registered.
C9_HandlerRegisteredFirst ==
    /\ pc \in {"dispatch", "called", "returned"} => signalHandled
    /\ called.call # "none" => signalHandled

C9_Witness ==
    /\ pc = "called"
    /\ called.call \in {"run", "install", "update"}
    /\ signalHandled

\* C10: a panic of the version-reporting call does not end the process:
\* goversion gives the empty version, vendoring support is taken to be true
\* and the process goes on to main.
C10_GoverPanicSwallowed ==
    (goverOut.panics /\ pc # "init")
        => (~PanicExit /\ isVendoringSupported /\ vendorFolder = vendorStr)

====
